---------------------------- MODULE Spec2Model ----------------------------
(* A model of the dashboard server in src/server.js: one browser client's  *)
(* session (express-session + passport), the routes of the express app in  *)
(* registration order, and the bot API reached through callBotAPI.  Each   *)
(* action is one request handled from arrival to response; the bot API's   *)
(* and the OAuth provider's answers are inputs of the action.              *)
EXTENDS Integers, Sequences, FiniteSets, TLC

VARIABLES
    session,    \* the client's entry in the session store
    pc,         \* "idle", "handling" (request past the middleware), "responded"
    req,        \* the request being handled, with req.user as passport set it
    res,        \* the response sent for req
    upstream,   \* the calls req's handler made to the bot API with their answers, in order
    logged,     \* what req's handler wrote with console.error, in order
    oauth       \* what the OAuth provider answered to req's exchange

vars == <<session, pc, req, res, upstream, logged, oauth>>

(***************************************************************************)
(* Bounds of the model.                                                    *)
(***************************************************************************)
\* longest guild list of a Discord profile
MaxGuilds == 2

(***************************************************************************)
(* Arbitrary-precision integers: BigInt values are sequences of bits,      *)
(* least significant first, without leading zero bits.                     *)
(***************************************************************************)
\* drop the zero bits above the highest 1 bit
BigTrim(a) ==
    LET ones == {i \in 1..Len(a) : a[i] = 1}
    IN  IF ones = {} THEN <<>>
        ELSE SubSeq(a, 1, CHOOSE i \in ones : \A j \in ones : j <= i)

\* bit i of a, 0 above a's length
BigBit(a, i) == IF i <= Len(a) THEN a[i] ELSE 0

\* the carry into bit i of a + b: some lower bit generates a carry and every
\* bit between propagates it
BigCarry(a, b, i) ==
    IF \E j \in 1..(i - 1) :
          /\ BigBit(a, j) + BigBit(b, j) = 2
          /\ \A k \in (j + 1)..(i - 1) : BigBit(a, k) + BigBit(b, k) >= 1
    THEN 1 ELSE 0

BigAdd(a, b) ==
    LET n == (IF Len(a) < Len(b) THEN Len(b) ELSE Len(a)) + 1
    IN  BigTrim([i \in 1..n |-> (BigBit(a, i) + BigBit(b, i) + BigCarry(a, b, i)) % 2])

BigShl(a, n) == BigTrim([i \in 1..n |-> 0] \o a)

RECURSIVE BigFromNat(_)
BigFromNat(n) == IF n = 0 THEN <<>> ELSE <<n % 2>> \o BigFromNat(n \div 2)

\* a * base for the two bases a BigInt literal string can have
BigMulBase(a, base) ==
    IF base = 16 THEN BigShl(a, 4) ELSE BigAdd(BigShl(a, 3), BigShl(a, 1))

\* the & of two BigInts
BigAnd(a, b) ==
    LET n == IF Len(a) < Len(b) THEN Len(a) ELSE Len(b)
    IN  BigTrim([i \in 1..n |-> IF a[i] = 1 /\ b[i] = 1 THEN 1 ELSE 0])

RECURSIVE BigParse(_, _, _)
BigParse(digits, base, acc) ==
    IF digits = <<>> THEN acc
    ELSE LET next == BigAdd(BigMulBase(acc, base), BigFromNat(Head(digits)))
         IN  \* the comparison has TLC evaluate next before it goes on
             IF next = <<>> THEN BigParse(Tail(digits), base, <<>>)
             ELSE BigParse(Tail(digits), base, next)

\* BigInt(string): a "0x" prefix selects base 16, otherwise the string is decimal
BigInt(str) == BigParse(str.digits, IF str.hex THEN 16 ELSE 10, <<>>)


(***************************************************************************)
(* Values of the environment: guild ids, permission strings as Discord     *)
(* sends them, profiles, JSON bodies of the bot API, request bodies.       *)
(***************************************************************************)
GuildIds == {"A", "B", "C"}

GuildName == [g \in GuildIds |-> "guild-" \o g]

\* a guild's icon hash; null (here "") when the guild has no icon
GuildIcon == [g \in GuildIds |-> IF g = "B" THEN "" ELSE "icon-" \o g]

Perm0x0 == [hex |-> TRUE, digits |-> <<0>>]
Perm0x20 == [hex |-> TRUE, digits |-> <<2, 0>>]
\* 0x00000000000000000020000000000028
PermWide == [hex |-> TRUE,
             digits |-> [i \in 1..18 |-> 0] \o <<2>> \o [i \in 1..11 |-> 0] \o <<2, 8>>]
\* 0x20000000000008
PermWideNoManage == [hex |-> TRUE, digits |-> <<2>> \o [i \in 1..12 |-> 0] \o <<8>>]
\* "288230376151711776", 2^58 + 32
PermDecimal == [hex |-> FALSE, digits |-> <<2,8,8,2,3,0,3,7,6,1,5,1,7,1,1,7,7,6>>]

Perms == {Perm0x0, Perm0x20, PermWide, PermWideNoManage, PermDecimal}

GuildEntries ==
    {[id |-> g, name |-> GuildName[g], icon |-> GuildIcon[g], permissions |-> p] :
        g \in GuildIds, p \in Perms}

\* sequences over S of length at most n whose elements have distinct ids
RECURSIVE DistinctSeqs(_, _)
DistinctSeqs(S, n) ==
    IF n = 0 THEN {<<>>}
    ELSE LET shorter == DistinctSeqs(S, n - 1)
         IN  shorter \cup
             {Append(q, e) : q \in {x \in shorter : Len(x) = n - 1},
                             e \in S} 

HasDistinctIds(q) == \A i, j \in 1..Len(q) : q[i].id = q[j].id => i = j

GuildLists == {q \in DistinctSeqs(GuildEntries, MaxGuilds) : HasDistinctIds(q)}

\* the profile passport-discord builds for scope ['identify', 'guilds']
Profiles == {[id |-> "u1", guilds |-> q] : q \in GuildLists}

\* req.user of a request that is not logged in
NoUser == [id |-> "", guilds |-> <<>>]

NoSession == [stored |-> FALSE, user |-> NoUser]

JsonNone == [tag |-> "none", val |-> "", guilds |-> <<>>]
JsonNull == [tag |-> "null", val |-> "", guilds |-> <<>>]
JsonValue(v) == [tag |-> "value", val |-> v, guilds |-> <<>>]
JsonGuilds(q) == [tag |-> "guilds", val |-> "", guilds |-> q]
JsonError(m) == [tag |-> "error", val |-> m, guilds |-> <<>>]

\* guild id lists the bot API answers /api/bot/guilds with
BotGuildLists == {<<>>, <<"A">>, <<"B">>, <<"C", "A">>}

\* what a 2xx answer of the bot API can carry
UpstreamBodies ==
    {JsonNull, JsonValue("v1")} \cup {JsonGuilds(q) : q \in BotGuildLists}

\* error.message of a failed axios call
UpstreamMessages == {"connect ECONNREFUSED"}

UpstreamOutcomes ==
    {[ok |-> TRUE, data |-> d, message |-> ""] : d \in UpstreamBodies} \cup
    {[ok |-> FALSE, data |-> JsonNone, message |-> m] : m \in UpstreamMessages}

\* req.body after express.json()
Bodies == {JsonValue("{}"), JsonValue("b1")}


(***************************************************************************)
(* Requests and responses.                                                 *)
(***************************************************************************)
PageRoutes ==
    {"/dashboard/:guildId", "/dashboard/:guildId/aichat", "/dashboard/:guildId/suggestions"}

GuildProxyRoutes ==
    {"GET /api/guilds/:guildId/channels", "GET /api/aichat/config/:guildId",
     "GET /api/suggestions/config/:guildId", "GET /api/suggestions/stats/:guildId"}

BodyProxyRoutes ==
    {"POST /api/aichat/save", "POST /api/aichat/reset-memory",
     "POST /api/suggestions/setup", "POST /api/suggestions/toggle"}

ProxyRoutes == GuildProxyRoutes \cup BodyProxyRoutes \cup {"GET /api/analytics"}

PlainRoutes ==
    {"/", "/auth/login", "/auth/callback", "/auth/logout", "/dashboard",
     "/privacy", "/terms", "unmatched"}

\* the requests a client can send: route, :guildId parameter, JSON body
Requests ==
    {[route |-> r, guildId |-> "", body |-> JsonNone] :
        r \in PlainRoutes \cup {"GET /api/analytics"}} \cup
    {[route |-> r, guildId |-> g, body |-> JsonNone] :
        r \in PageRoutes \cup GuildProxyRoutes, g \in GuildIds} \cup
    {[route |-> r, guildId |-> "", body |-> b] : r \in BodyProxyRoutes, b \in Bodies}

\* hadSession: the request's cookie named a session the store still held
NoRequest ==
    [route |-> "", guildId |-> "", body |-> JsonNone, hadSession |-> FALSE, user |-> NoUser]

NoResponse ==
    [status |-> 0, kind |-> "", location |-> "", view |-> "", page |-> "", text |-> "",
     json |-> JsonNone, guilds |-> <<>>, guild |-> JsonNone, user |-> NoUser]

\* res.redirect(location)
Redirect(location) ==
    [NoResponse EXCEPT !.status = 302, !.kind = "redirect", !.location = location]

\* res.status(status).send(text)
Send(status, text) == [NoResponse EXCEPT !.status = status, !.kind = "send", !.text = text]

\* res.status(status).json(value)
Json(status, value) == [NoResponse EXCEPT !.status = status, !.kind = "json", !.json = value]

\* res.status(status).render(view, {user, ...})
Render(status, view, user) ==
    [NoResponse EXCEPT !.status = status, !.kind = "render", !.view = view, !.user = user]


(***************************************************************************)
(* Helpers of server.js.                                                   *)
(***************************************************************************)
\* a gate that lets every request through
AlwaysAuthenticated(user) == TRUE

\* req.isAuthenticated(): passport found a user in the session
IsAuthenticated(user) == user # NoUser

\* the axios config callBotAPI builds; config.data is set only for a truthy data
ApiCall(endpoint, method, data) ==
    [endpoint |-> endpoint, method |-> method,
     data |-> IF data # JsonNone THEN data ELSE JsonNone,
     authorization |-> "Bearer BOT_API.key"]

\* callBotAPI's catch: log the endpoint and the message, then rethrow
ApiLog(endpoint, outcome) ==
    IF outcome.ok THEN <<>>
    ELSE <<[at |-> "API Error", endpoint |-> endpoint, message |-> outcome.message]>>

\* the bit of "manage server"
ManageServer == 32

\* (Number(g.permissions) & 0x20) === 0x20: a double keeps the 53 highest bits
HasManageServerNumber(permissions) ==
    LET b == BigInt(permissions)
        low == IF Len(b) > 53 THEN Len(b) - 52 ELSE 1
        kept == [i \in 1..Len(b) |-> IF i >= low THEN b[i] ELSE 0]
    IN  BigAnd(kept, BigFromNat(ManageServer)) = BigFromNat(ManageServer)

\* (BigInt(g.permissions) & 0x20n) === 0x20n
HasManageServer(permissions) ==
    BigAnd(BigInt(permissions), BigFromNat(ManageServer)) = BigFromNat(ManageServer)

ManagePermission == [p \in Perms |-> HasManageServer(p)]

\* userGuilds.filter(...)
ManagedGuilds(user) ==
    SelectSeq(user.guilds, LAMBDA g : ManagePermission[g.permissions])

\* botData.guilds || [], and [] when the call or the property access throws
BotGuilds(outcome) ==
    IF outcome.ok /\ outcome.data.tag = "guilds" THEN outcome.data.guilds ELSE <<>>

\* botGuilds.includes(id)
Includes(list, id) == \E k \in 1..Len(list) : list[k] = id

\* managedGuilds.map(...)
GuildSummaries(managed, botGuilds) ==
    [i \in 1..Len(managed) |->
        [id |-> managed[i].id,
         name |-> managed[i].name,
         icon |-> IF managed[i].icon # ""
                  THEN <<"https://cdn.discordapp.com/icons/", managed[i].id, "/",
                         managed[i].icon, ".png">>
                  ELSE <<>>,
         botInGuild |-> Includes(botGuilds, managed[i].id)]]

\* find(g => g.id = guildId): an assignment, true of the first guild
FindFirstGuild(user, guildId) == Len(user.guilds) > 0

\* a membership check that also asks for the manage server bit
FindManagedGuild(user, guildId) ==
    \E i \in 1..Len(user.guilds) :
        user.guilds[i].id = guildId /\ ManagePermission[user.guilds[i].permissions]

\* (req.user.guilds || []).find(g => g.id === guildId)
FindGuild(user, guildId) == \E i \in 1..Len(user.guilds) : user.guilds[i].id = guildId

\* a proxy route that also asks for membership of the guild
ProxyGateMember(user, guildId) == IsAuthenticated(user) /\ FindGuild(user, guildId)

\* the middleware of a JSON proxy route: isAuthenticated and nothing else
ProxyGate(user, guildId) == IsAuthenticated(user)

PageView ==
    [r \in PageRoutes |->
        CASE r = "/dashboard/:guildId" -> [view |-> "dashboard", page |-> "overview",
                                           error |-> "Error loading guild dashboard",
                                           at |-> "Guild dashboard error"]
          [] r = "/dashboard/:guildId/aichat" -> [view |-> "aichat", page |-> "aichat",
                                                  error |-> "Error loading AI Chat page",
                                                  at |-> "AI Chat page error"]
          [] OTHER -> [view |-> "suggestions", page |-> "suggestions",
                       error |-> "Error loading Suggestions page",
                       at |-> "Suggestions page error"]]

\* per proxy route: HTTP method, bot API endpoint and the fixed failure message
ProxyMethod == [r \in ProxyRoutes |-> IF r \in BodyProxyRoutes THEN "POST" ELSE "GET"]

\* the data passed to callBotAPI: req.body on the POST routes, none on the GET routes
ProxyData(r, body) == IF r \in BodyProxyRoutes THEN body ELSE JsonNone

ProxyEndpoint(r, guildId) ==
    CASE r = "GET /api/guilds/:guildId/channels" -> <<"/api/guilds/", guildId, "/channels">>
      [] r = "GET /api/aichat/config/:guildId" -> <<"/api/aichat/config/", guildId>>
      [] r = "POST /api/aichat/save" -> <<"/api/aichat/save">>
      [] r = "POST /api/aichat/reset-memory" -> <<"/api/aichat/reset-memory">>
      [] r = "GET /api/analytics" -> <<"/api/analytics">>
      [] r = "GET /api/suggestions/config/:guildId" -> <<"/api/suggestions/config/", guildId>>
      [] r = "GET /api/suggestions/stats/:guildId" -> <<"/api/suggestions/stats/", guildId>>
      [] r = "POST /api/suggestions/setup" -> <<"/api/suggestions/setup">>
      [] OTHER -> <<"/api/suggestions/toggle">>

ProxyFailure ==
    [r \in ProxyRoutes |->
        CASE r = "GET /api/guilds/:guildId/channels" -> "Failed to fetch channels"
          [] r = "GET /api/aichat/config/:guildId" -> "Failed to fetch config"
          [] r = "POST /api/aichat/save" -> "Failed to save config"
          [] r = "POST /api/aichat/reset-memory" -> "Failed to reset memory"
          [] r = "GET /api/analytics" -> "Failed to fetch analytics"
          [] r = "GET /api/suggestions/config/:guildId" -> "Failed to fetch config"
          [] r = "GET /api/suggestions/stats/:guildId" -> "Failed to fetch stats"
          [] r = "POST /api/suggestions/setup" -> "Failed to setup suggestions"
          [] OTHER -> "Failed to toggle suggestions"]


(***************************************************************************)
(* The OAuth provider as passport's discord strategy reports it.           *)
(***************************************************************************)
\* err.name of an error the strategy passes to next(err)
ExchangeErrors == {"TokenError", "InternalOAuthError"}
OtherErrors == {"AuthorizationError", "Error"}

NoOAuth == [kind |-> "", profile |-> NoUser, name |-> ""]

CallbackOutcomes ==
    {[kind |-> "profile", profile |-> p, name |-> ""] : p \in Profiles} \cup
    {[kind |-> "error", profile |-> NoUser, name |-> n] : n \in ExchangeErrors \cup OtherErrors} \cup
    {[kind |-> k, profile |-> NoUser, name |-> ""] : k \in {"denied", "nocode"}}

\* a login that keeps the guilds of the session it replaces
LoginSessionMerge(s, profile) ==
    [stored |-> TRUE, user |-> [profile EXCEPT !.guilds = s.user.guilds \o profile.guilds]]

\* req.login(profile) after a successful exchange: a regenerated session holding the profile
LoginSession(s, profile) == [stored |-> TRUE, user |-> profile]

\* a logout that leaves the session as it is
LogoutSessionKept(s) == s

\* req.logout(callback): the user is removed and the session regenerated, unsaved
LogoutSession(s) == NoSession

\* an error handler that redirects without destroying the session
ErrorHandlerKeep(name, s, hasSession) ==
    IF name = "TokenError" \/ name = "InternalOAuthError"
    THEN [session |-> s, res |-> Redirect("/auth/login")]
    ELSE [session |-> s, res |-> Send(500, "Internal Server Error")]

\* the error handler: what becomes of the session, and the response
ErrorHandler(name, s, hasSession) ==
    IF name = "TokenError" \/ name = "InternalOAuthError"
    THEN [session |-> IF hasSession THEN NoSession ELSE s, res |-> Redirect("/auth/login")]
    ELSE [session |-> s, res |-> Send(500, "Internal Server Error")]

(***************************************************************************)
(* The responses of the routes that call the bot API.                      *)
(***************************************************************************)
\* a selector without the inner try/catch: a failed bot guilds call fails the page
SelectorResponseStrict(user, outcome) ==
    IF outcome.ok
    THEN [Render(200, "selector", user) EXCEPT
            !.page = "selector",
            !.guilds = GuildSummaries(ManagedGuilds(user), BotGuilds(outcome))]
    ELSE Send(500, "Error loading dashboard")

\* GET /dashboard, past the auth gate
SelectorResponse(user, outcome) ==
    [Render(200, "selector", user) EXCEPT
        !.page = "selector",
        !.guilds = GuildSummaries(ManagedGuilds(user), BotGuilds(outcome))]

SelectorLog(outcome) ==
    IF outcome.ok /\ outcome.data # JsonNull THEN <<>>
    ELSE ApiLog(<<"/api/bot/guilds">>, outcome) \o
         <<[at |-> "Failed to fetch bot guilds", endpoint |-> <<>>,
            message |-> IF outcome.ok THEN "TypeError" ELSE outcome.message]>>

\* a guild page, past the auth gate and the membership check
PageResponse(route, user, outcome) ==
    IF outcome.ok
    THEN [Render(200, PageView[route].view, user) EXCEPT
            !.page = PageView[route].page, !.guild = outcome.data]
    ELSE Send(500, PageView[route].error)

PageLog(route, guildId, outcome) ==
    IF outcome.ok THEN <<>>
    ELSE ApiLog(<<"/api/guilds/", guildId, "/info">>, outcome) \o
         <<[at |-> PageView[route].at, endpoint |-> <<>>, message |-> outcome.message]>>

\* a proxy that sends error.message to the client
ProxyResponseLeaky(route, outcome) ==
    IF outcome.ok THEN Json(200, outcome.data)
    ELSE Json(500, JsonError(outcome.message))

\* a JSON proxy route, past the auth gate
ProxyResponse(route, outcome) ==
    IF outcome.ok THEN Json(200, outcome.data)
    ELSE Json(500, JsonError(ProxyFailure[route]))

(***************************************************************************)
(* The state machine.                                                      *)
(***************************************************************************)
Init ==
    /\ session = NoSession
    /\ pc = "idle"
    /\ req = NoRequest
    /\ res = NoResponse
    /\ upstream = <<>>
    /\ logged = <<>>
    /\ oauth = NoOAuth

\* the end of a handler: the response is sent
Respond(r, calls, logs) ==
    /\ pc' = "responded"
    /\ res' = r
    /\ upstream' = calls
    /\ logged' = logs

Handling(routes) == pc = "handling" /\ req.route \in routes

\* the session and passport middleware: the store drops a session whose
\* cookie.maxAge has passed when it is looked up; req.user is read from what is left
Arrive ==
    /\ pc # "handling"
    /\ \E r \in Requests, expired \in BOOLEAN :
        /\ expired => session.stored
        /\ session' = IF expired THEN NoSession ELSE session
        /\ req' = [route |-> r.route, guildId |-> r.guildId, body |-> r.body,
                   hadSession |-> session'.stored, user |-> session'.user]
    /\ pc' = "handling"
    /\ res' = NoResponse
    /\ upstream' = <<>>
    /\ logged' = <<>>
    /\ oauth' = NoOAuth

Landing ==
    /\ Handling({"/"})
    /\ Respond(IF IsAuthenticated(req.user) THEN Redirect("/dashboard")
               ELSE Render(200, "login", NoUser), <<>>, <<>>)
    /\ UNCHANGED <<session, req, oauth>>

AuthLogin ==
    /\ Handling({"/auth/login"})
    /\ Respond(Redirect("https://discord.com/api/oauth2/authorize"), <<>>, <<>>)
    /\ UNCHANGED <<session, req, oauth>>

AuthCallback ==
    /\ Handling({"/auth/callback"})
    /\ \E o \in CallbackOutcomes :
        /\ oauth' = o
        /\ CASE o.kind = "profile" ->
                    /\ session' = LoginSession(session, o.profile)
                    /\ req' = [req EXCEPT !.user = o.profile]
                    /\ Respond(Redirect("/dashboard"), <<>>, <<>>)
             [] o.kind = "denied" ->
                    /\ UNCHANGED <<session, req>>
                    /\ Respond(Redirect("/"), <<>>, <<>>)
             [] o.kind = "nocode" ->
                    /\ UNCHANGED <<session, req>>
                    /\ Respond(Redirect("https://discord.com/api/oauth2/authorize"), <<>>, <<>>)
             [] OTHER ->
                    LET h == ErrorHandler(o.name, session, TRUE)
                    IN  /\ session' = h.session
                        /\ req' = req
                        /\ Respond(h.res, <<>>,
                                   <<[at |-> "Dashboard Error", endpoint |-> <<>>,
                                      message |-> o.name]>>)

AuthLogout ==
    /\ Handling({"/auth/logout"})
    /\ session' = LogoutSession(session)
    /\ req' = [req EXCEPT !.user = NoUser]
    /\ Respond(Redirect("/"), <<>>, <<>>)
    /\ UNCHANGED oauth

Dashboard ==
    /\ Handling({"/dashboard"})
    /\ IF IsAuthenticated(req.user)
       THEN \E o \in UpstreamOutcomes :
                Respond(SelectorResponse(req.user, o),
                        <<[call |-> ApiCall(<<"/api/bot/guilds">>, "GET", JsonNone),
                           answer |-> o]>>,
                        SelectorLog(o))
       ELSE Respond(Redirect("/"), <<>>, <<>>)
    /\ UNCHANGED <<session, req, oauth>>

GuildPage ==
    /\ Handling(PageRoutes)
    /\ IF ~IsAuthenticated(req.user)
       THEN Respond(Redirect("/"), <<>>, <<>>)
       ELSE IF ~FindGuild(req.user, req.guildId)
       THEN Respond(Send(403, "Access denied"), <<>>, <<>>)
       ELSE \E o \in UpstreamOutcomes :
                Respond(PageResponse(req.route, req.user, o),
                        <<[call |-> ApiCall(<<"/api/guilds/", req.guildId, "/info">>,
                                            "GET", JsonNone),
                           answer |-> o]>>,
                        PageLog(req.route, req.guildId, o))
    /\ UNCHANGED <<session, req, oauth>>

Proxy ==
    /\ Handling(ProxyRoutes)
    /\ IF ProxyGate(req.user, req.guildId)
       THEN \E o \in UpstreamOutcomes :
                Respond(ProxyResponse(req.route, o),
                        <<[call |-> ApiCall(ProxyEndpoint(req.route, req.guildId),
                                            ProxyMethod[req.route],
                                            ProxyData(req.route, req.body)),
                           answer |-> o]>>,
                        ApiLog(ProxyEndpoint(req.route, req.guildId), o))
       ELSE Respond(Redirect("/"), <<>>, <<>>)
    /\ UNCHANGED <<session, req, oauth>>

Privacy ==
    /\ Handling({"/privacy"})
    /\ Respond(Render(200, "pt/pp", req.user), <<>>, <<>>)
    /\ UNCHANGED <<session, req, oauth>>

Terms ==
    /\ Handling({"/terms"})
    /\ Respond(Render(200, "pt/tos", req.user), <<>>, <<>>)
    /\ UNCHANGED <<session, req, oauth>>

NotFound ==
    /\ Handling({"unmatched"})
    /\ Respond(Render(404, "404", req.user), <<>>, <<>>)
    /\ UNCHANGED <<session, req, oauth>>

Next ==
    \/ Arrive
    \/ Landing
    \/ AuthLogin
    \/ AuthCallback
    \/ AuthLogout
    \/ Dashboard
    \/ GuildPage
    \/ Proxy
    \/ Privacy
    \/ Terms
    \/ NotFound

Spec == Init /\ [][Next]_vars


(***************************************************************************)
(* Vocabulary of the properties, stated on the values themselves.          *)
(***************************************************************************)
ProtectedRoutes == {"/dashboard"} \cup PageRoutes \cup ProxyRoutes

Responded(routes) == pc = "responded" /\ req.route \in routes

\* the permission strings whose value has bit 0x20 set
ManagePerms == {Perm0x20, PermWide, PermDecimal}

MemberIds(user) == {user.guilds[i].id : i \in 1..Len(user.guilds)}

ManagedIds(user) ==
    {user.guilds[i].id : i \in {k \in 1..Len(user.guilds) :
                                    user.guilds[k].permissions \in ManagePerms}}

Ids(list) == [i \in 1..Len(list) |-> list[i].id]

Range(list) == {list[i] : i \in 1..Len(list)}

InfoEndpoint(guildId) == <<"/api/guilds/", guildId, "/info">>

\* C1: a protected route answers a request that carries no Identity with a
\* redirect to "/", renders nothing and calls the bot API not at all; what a
\* request carries is what its session held when it arrived.
C1_NoIdentityRedirects ==
    /\ pc = "handling" => req.user = session.user
    /\ Responded(ProtectedRoutes) /\ req.user = NoUser =>
            res = Redirect("/") /\ upstream = <<>>
    /\ Responded(ProtectedRoutes) /\ (res.kind # "redirect" \/ upstream # <<>>) =>
            req.user \in Profiles

C1_Witness ==
    /\ Responded(ProxyRoutes)
    /\ req.user = NoUser
    /\ res = Redirect("/")

\* C2: a guild page asked for a guild that is not among the Identity's
\* memberships answers 403 "Access denied", calls the bot API not at all and
\* carries no guild data.
C2_NonMemberDenied ==
    Responded(PageRoutes) /\ req.user # NoUser /\ req.guildId \notin MemberIds(req.user) =>
        /\ res = Send(403, "Access denied")
        /\ upstream = <<>>

C2_Witness ==
    /\ Responded(PageRoutes)
    /\ Len(req.user.guilds) > 0
    /\ req.guildId \notin MemberIds(req.user)
    /\ res.status = 403

\* C3: the selector lists exactly the memberships whose permission value has
\* bit 0x20 set, in membership order, also for values beyond 53 bits.
C3_SelectorIsManagedMemberships ==
    Responded({"/dashboard"}) /\ req.user # NoUser =>
        /\ res.kind = "render"
        /\ Ids(res.guilds) = Ids(SelectSeq(req.user.guilds,
                                           LAMBDA g : g.permissions \in ManagePerms))

C3_Witness ==
    /\ Responded({"/dashboard"})
    /\ Len(req.user.guilds) = 2
    /\ req.user.guilds[1].permissions = PermDecimal
    /\ req.user.guilds[2].permissions = PermWide
    /\ Ids(res.guilds) = Ids(req.user.guilds)

\* C4 as stated: a guild page for a membership without the manage bit answers
\* 200, and the selector does not list that guild.
C4_MemberPageIs200 ==
    /\ Responded({"/dashboard/:guildId"}) /\ req.guildId \in MemberIds(req.user)
            /\ req.guildId \notin ManagedIds(req.user) =>
            res.status = 200
    /\ Responded({"/dashboard"}) /\ req.user # NoUser =>
            \A g \in MemberIds(req.user) \ ManagedIds(req.user) : g \notin Range(Ids(res.guilds))

\* C4 amended: a guild page for a membership without the manage bit is never
\* denied: it asks the bot API for the guild's info once and answers 200 with
\* the page when that call succeeds, 500 when it fails; the selector does not
\* list that guild.
C4_MemberPageNotDenied ==
    /\ Responded({"/dashboard/:guildId"}) /\ req.guildId \in MemberIds(req.user)
            /\ req.guildId \notin ManagedIds(req.user) =>
            /\ Len(upstream) = 1
            /\ upstream[1].call.endpoint = InfoEndpoint(req.guildId)
            /\ IF upstream[1].answer.ok
               THEN res.status = 200 /\ res.kind = "render" /\ res.view = "dashboard"
                    /\ res.guild = upstream[1].answer.data
               ELSE res = Send(500, "Error loading guild dashboard")
    /\ Responded({"/dashboard"}) /\ req.user # NoUser =>
            \A g \in MemberIds(req.user) \ ManagedIds(req.user) : g \notin Range(Ids(res.guilds))

C4_Witness ==
    /\ Responded({"/dashboard/:guildId"})
    /\ req.guildId \in MemberIds(req.user)
    /\ req.guildId \notin ManagedIds(req.user)
    /\ res.status = 200

\* C5: when the bot guilds call fails the selector is still rendered, with the
\* same entries and botInGuild false on each, and the failure is logged; when
\* it succeeds botInGuild tells whether the guild is in the list returned.
C5_SelectorSurvivesUpstreamFailure ==
    Responded({"/dashboard"}) /\ req.user # NoUser =>
        /\ Len(upstream) = 1
        /\ upstream[1].call.endpoint = <<"/api/bot/guilds">>
        /\ res.status = 200 /\ res.kind = "render" /\ res.view = "selector"
        /\ Range(Ids(res.guilds)) = ManagedIds(req.user)
        /\ LET answer == upstream[1].answer
           IN  /\ ~answer.ok =>
                    /\ \A i \in 1..Len(res.guilds) : ~res.guilds[i].botInGuild
                    /\ logged # <<>>
               /\ answer.ok /\ answer.data.tag = "guilds" =>
                    \A i \in 1..Len(res.guilds) :
                        res.guilds[i].botInGuild <=>
                            res.guilds[i].id \in Range(answer.data.guilds)

C5_Witness ==
    /\ Responded({"/dashboard"})
    /\ Len(upstream) = 1
    /\ ~upstream[1].answer.ok
    /\ Len(res.guilds) = 2
    /\ res.kind = "render"

\* C6: a JSON proxy route, for a request that carries an Identity, calls the
\* bot API exactly once and answers either 200 with the JSON value the bot API
\* returned or, when the call failed, 500 with the route's fixed failure JSON,
\* which holds nothing of the error.
C6_ProxyOneCallVerbatim ==
    Responded(ProxyRoutes) /\ req.user # NoUser =>
        /\ Len(upstream) = 1
        /\ upstream[1].call.data =
                (IF req.route \in BodyProxyRoutes THEN req.body ELSE JsonNone)
        /\ LET answer == upstream[1].answer
           IN  IF answer.ok
               THEN res = Json(200, answer.data)
               ELSE /\ res = Json(500, JsonError(ProxyFailure[req.route]))
                    /\ res.json.val # answer.message

C6_Witness ==
    /\ Responded(BodyProxyRoutes)
    /\ req.body = JsonValue("b1")
    /\ Len(upstream) = 1
    /\ upstream[1].answer.ok
    /\ res = Json(200, JsonValue("v1"))

\* C7: when the logout route has answered, the session holds no Identity and
\* the answer is a redirect to "/"; from then on a session without Identity
\* gets one only by a successful OAuth callback, and until then every
\* protected route redirects to "/".
C7_LogoutClearsIdentity ==
    [][/\ pc = "handling" /\ req.route = "/auth/logout" /\ pc' = "responded" =>
            session' = NoSession /\ res' = Redirect("/")
       /\ session.user = NoUser /\ session'.user # NoUser =>
            pc = "handling" /\ req.route = "/auth/callback" /\ oauth'.kind = "profile"
       /\ pc = "handling" /\ req.route \in ProtectedRoutes /\ session.user = NoUser
            /\ pc' = "responded" =>
            res' = Redirect("/") /\ upstream' = <<>>]_vars

C7_Witness ==
    /\ Responded({"/auth/logout"})
    /\ req.hadSession
    /\ session = NoSession
    /\ res = Redirect("/")

\* C8: when the OAuth exchange of the callback fails (TokenError or
\* InternalOAuthError) the session is destroyed and the client is sent to the
\* login trigger; a stored session always holds an Identity.
C8_FailedExchangeDestroysSession ==
    /\ Responded({"/auth/callback"}) /\ oauth.kind = "error" /\ oauth.name \in ExchangeErrors =>
            session = NoSession /\ res = Redirect("/auth/login")
    /\ session.stored <=> session.user # NoUser

C8_Witness ==
    /\ Responded({"/auth/callback"})
    /\ oauth.name = "TokenError"
    /\ req.hadSession
    /\ session = NoSession

\* C9: the Identity of the session changes only by a successful OAuth callback,
\* which replaces it with the new profile, or by going away: logout, the error
\* handler destroying the session, or the store dropping an expired session.
C9_IdentityFrame ==
    [][session'.user # session.user =>
        \/ /\ pc = "handling" /\ req.route = "/auth/callback"
           /\ oauth'.kind = "profile"
           /\ session'.user = oauth'.profile
        \/ /\ session'.user = NoUser
           /\ \/ pc = "handling" /\ req.route = "/auth/logout"
              \/ /\ pc = "handling" /\ req.route = "/auth/callback"
                 /\ oauth'.kind = "error" /\ oauth'.name \in ExchangeErrors
              \/ pc # "handling" /\ pc' = "handling"]_vars

C9_Witness ==
    /\ Responded(PageRoutes \cup ProxyRoutes)
    /\ res.status = 500
    /\ Len(req.user.guilds) = 2
    /\ session.user = req.user

GuildEndpoint(route, guildId) ==
    CASE route = "GET /api/guilds/:guildId/channels" -> <<"/api/guilds/", guildId, "/channels">>
      [] route = "GET /api/aichat/config/:guildId" -> <<"/api/aichat/config/", guildId>>
      [] route = "GET /api/suggestions/config/:guildId" -> <<"/api/suggestions/config/", guildId>>
      [] route = "GET /api/suggestions/stats/:guildId" -> <<"/api/suggestions/stats/", guildId>>

\* C10 as stated: a guild-scoped JSON proxy route, for any Identity and any
\* guild id, member or not, calls the bot API for that guild and answers 200
\* with its body.
C10_GuildProxyIs200 ==
    Responded(GuildProxyRoutes) /\ req.user # NoUser =>
        /\ Len(upstream) = 1
        /\ upstream[1].call.endpoint = GuildEndpoint(req.route, req.guildId)
        /\ res = Json(200, upstream[1].answer.data)

\* C10 amended: a guild-scoped JSON proxy route, for any Identity and any guild
\* id, member or not, calls the bot API for that guild and answers 200 with
\* its body when the call succeeds and 500 with the fixed failure JSON when it
\* fails; it never answers 403.
C10_GuildProxyAuthOnly ==
    Responded(GuildProxyRoutes) /\ req.user # NoUser =>
        /\ Len(upstream) = 1
        /\ upstream[1].call.endpoint = GuildEndpoint(req.route, req.guildId)
        /\ upstream[1].call.method = "GET"
        /\ IF upstream[1].answer.ok
           THEN res = Json(200, upstream[1].answer.data)
           ELSE res.status = 500 /\ res.kind = "json" /\ res.json.tag = "error"
        /\ res.status # 403

C10_Witness ==
    /\ Responded(GuildProxyRoutes)
    /\ req.user # NoUser
    /\ req.guildId \notin MemberIds(req.user)
    /\ Len(upstream) = 1
    /\ res = Json(200, JsonValue("v1"))

=============================================================================
